---- MODULE Spec2Model ----
(***************************************************************************)
(* Byte-substitution image cipher: img_encrypt.py / img_decrypt.py.        *)
(*                                                                         *)
(* The byte range 0..255 of the program is scaled to 0..KeySize-1; a key   *)
(* is a sequence of KeySize integers, index v+1 holding key[v].  A pixel   *)
(* buffer is a record [rows, cols, chans, data], data being the row-major  *)
(* flattening of the array (chans = 0 stands for a 2-D array).             *)
(***************************************************************************)
EXTENDS Integers, Sequences, FiniteSets, TLC

VARIABLES pc, origin, key, shuf_i, vres, img, img1, img3, work, disk, run

vars == <<pc, origin, key, shuf_i, vres, img, img1, img3, work, disk, run>>

(***************************************************************************)
(* Bounds                                                                  *)
(***************************************************************************)
\* number of byte values (256 in the program)
KeySize == 3
\* largest number of rows / columns of a buffer
MaxRows == 2
MaxCols == 2

Bytes == 0 .. (KeySize - 1)

(***************************************************************************)
(* Python list helpers                                                     *)
(***************************************************************************)
\* list(range(256))
expected_range == [i \in 1 .. KeySize |-> i - 1]

SeqSet(s) == {s[i] : i \in 1 .. Len(s)}

\* s.count(x)
Count(s, x) == Cardinality({i \in 1 .. Len(s) : s[i] = x})

RECURSIVE Insert(_, _)
Insert(s, x) ==
  IF s = <<>> THEN <<x>>
  ELSE IF x <= Head(s) THEN <<x>> \o s
  ELSE <<Head(s)>> \o Insert(Tail(s), x)

\* sorted(key)
RECURSIVE sorted(_)
sorted(s) == IF s = <<>> THEN <<>> ELSE Insert(sorted(Tail(s)), Head(s))

(***************************************************************************)
(* generate_key: key = list(range(256)); random.shuffle(key)               *)
(***************************************************************************)
\* a mutation of the exchange: x[i] = x[j] without the write to x[j]
SwapOverwrite(s, i, j) == [s EXCEPT ![i + 1] = s[j + 1]]

\* x[i], x[j] = x[j], x[i]   (0-based i, j)
Swap(s, i, j) == [s EXCEPT ![i + 1] = s[j + 1], ![j + 1] = s[i + 1]]

(***************************************************************************)
(* validate_key                                                            *)
(***************************************************************************)
NoResult == [error |-> "pending", missing |-> {}, duplicates |-> {}]

\* a mutation of validate_key: compares the value sets, not the sorted lists
validate_key_sets(k) ==
  IF SeqSet(k) \cap Bytes # Bytes
    THEN [error |-> "missing", missing |-> Bytes \ SeqSet(k), duplicates |-> {}]
    ELSE [error |-> "none", missing |-> {}, duplicates |-> {}]

\* The ValueError raised (error, and the sets its message names), or "none".
validate_key(k) ==
  IF Len(k) # KeySize
    THEN [error |-> "length", missing |-> {}, duplicates |-> {}]
  ELSE LET sorted_key == sorted(k)
           missing    == SeqSet(expected_range) \ SeqSet(sorted_key)
           duplicates == {sorted_key[i] : i \in {n \in 1 .. Len(sorted_key) :
                                                   Count(sorted_key, sorted_key[n]) > 1}}
       IN IF sorted_key # expected_range
            THEN IF missing # {}
                   THEN [error |-> "missing", missing |-> missing, duplicates |-> {}]
                 ELSE IF duplicates # {}
                   THEN [error |-> "duplicates", missing |-> {}, duplicates |-> duplicates]
                 ELSE [error |-> "invalid", missing |-> {}, duplicates |-> {}]
            ELSE [error |-> "none", missing |-> {}, duplicates |-> {}]

ContentErrors == {"missing", "duplicates", "invalid"}

(***************************************************************************)
(* Buffers                                                                 *)
(***************************************************************************)
NoBuf == [rows |-> 0, cols |-> 0, chans |-> 3, data |-> <<>>]
NoOut == [status |-> "pending", buf |-> NoBuf, nones |-> {}, done |-> {}]

\* img.size
Size(b) == Len(b.data)

\* number of elements of an array of shape (rows, cols, 3)
Size3(b) == b.rows * b.cols * 3

\* flat index in img of img[i][j][k], for the flat index p of img1[i][j][k]
\* (both 1-based, row-major; img has img.chans channels, img1 has 3)
InIdx(b, p) == ((p - 1) \div 3) * b.chans + ((p - 1) % 3) + 1

\* lst[v] for a Python list: a negative index counts from the end
PyIndex(lst, v) ==
  IF v >= 0 /\ v < Len(lst) THEN [ok |-> TRUE, val |-> lst[v + 1]]
  ELSE IF v < 0 /\ v >= -Len(lst) THEN [ok |-> TRUE, val |-> lst[Len(lst) + v + 1]]
  ELSE [ok |-> FALSE, val |-> 0]

(***************************************************************************)
(* encrypt_image                                                           *)
(***************************************************************************)
\* np.zeros((rows, cols, 3), dtype=int), nothing substituted yet
Zeros(b) == [status |-> "ok", data |-> [p \in 1 .. Size3(b) |-> 0], done |-> {}]

\* a mutation of the element step: the substituted value also depends on the
\* element written before it (a running accumulator)
encrypt_step_chained(out, b, k, p) ==
  IF b.chans = 0 THEN [out EXCEPT !.status = "IndexError"]
  ELSE LET prev == IF p = 1 THEN 0 ELSE out.data[p - 1]
           r == PyIndex(k, (b.data[InIdx(b, p)] + prev) % Len(k))
       IN IF r.ok THEN [out EXCEPT !.data[p] = r.val, !.done = @ \cup {p}]
          ELSE [out EXCEPT !.status = "IndexError"]

\* line 89: img1[i][j][k] = key[img[i][j][k]], p the flat index of (i, j, k)
encrypt_step(out, b, k, p) ==
  IF b.chans = 0 THEN [out EXCEPT !.status = "IndexError"]
  ELSE LET r == PyIndex(k, b.data[InIdx(b, p)])
       IN IF r.ok THEN [out EXCEPT !.data[p] = r.val, !.done = @ \cup {p}]
          ELSE [out EXCEPT !.status = "IndexError"]

\* lines 86-89: the nested loops, in row-major order, stopped by the first exception
RECURSIVE EncryptLoop(_, _, _, _)
EncryptLoop(out, b, k, p) ==
  IF p > Size3(b) \/ out.status # "ok" THEN out
  ELSE EncryptLoop(encrypt_step(out, b, k, p), b, k, p + 1)

\* a mutation of encrypt_image: the loops skip the first element
encrypt_image_short(b, k) ==
  LET out == EncryptLoop(Zeros(b), b, k, 2)
  IN IF out.status = "ok"
       THEN [status |-> "ok", nones |-> {}, done |-> out.done,
             buf |-> [rows |-> b.rows, cols |-> b.cols, chans |-> 3, data |-> out.data]]
       ELSE [status |-> out.status, nones |-> {}, done |-> out.done, buf |-> NoBuf]

\* encrypt_image: the buffer returned, or the exception re-raised; done holds the
\* elements substituted on the way
encrypt_image(b, k) ==
  LET out == EncryptLoop(Zeros(b), b, k, 1)
  IN IF out.status = "ok"
       THEN [status |-> "ok", nones |-> {}, done |-> out.done,
             buf |-> [rows |-> b.rows, cols |-> b.cols, chans |-> 3, data |-> out.data]]
       ELSE [status |-> out.status, nones |-> {}, done |-> out.done, buf |-> NoBuf]

(***************************************************************************)
(* decrypt_image                                                           *)
(***************************************************************************)
\* inverse_key = {v: i for i, v in enumerate(key)}: a later index replaces an earlier one
InverseHas(k, v) == \E i \in 1 .. Len(k) : k[i] = v

\* inverse_key.get(v), for v a key of the dictionary
InverseGet(k, v) ==
  LET last == CHOOSE i \in 1 .. Len(k) :
                 k[i] = v /\ \A j \in 1 .. Len(k) : k[j] = v => j <= i
  IN last - 1

\* the call inverse_key.get(img[i][j][k]) np.vectorize makes for one element, p
\* its flat index
decrypt_step(out, b, k, p) ==
  IF InverseHas(k, b.data[p])
    THEN [out EXCEPT !.data[p] = InverseGet(k, b.data[p]), !.done = @ \cup {p}]
    ELSE [out EXCEPT !.status = "None"]

\* line 137: np.vectorize(inverse_key.get)(img).  vectorize refuses a size-0
\* input; it takes the output type from the result for the first element, so a
\* None there gives an object array holding the Nones, and a None anywhere
\* else fails the cast to the integer type.
VectorizeEntry(b) == IF Size(b) = 0 THEN "ValueError" ELSE "ok"

decrypt_image(b, k) ==
  LET n     == Size(b)
      nones == {p \in 1 .. n : ~InverseHas(k, b.data[p])}
      data  == [p \in 1 .. n |-> IF p \in nones THEN 0 ELSE InverseGet(k, b.data[p])]
  IN IF VectorizeEntry(b) # "ok"
       THEN [status |-> VectorizeEntry(b), nones |-> {}, done |-> {}, buf |-> NoBuf]
     ELSE IF nones # {} /\ 1 \notin nones
       THEN [status |-> "TypeError", nones |-> {}, done |-> (1 .. n) \ nones, buf |-> NoBuf]
     ELSE [status |-> "ok", nones |-> nones, done |-> (1 .. n) \ nones,
           buf |-> [b EXCEPT !.data = data]]

\* a mutation of validate_image: only the shape is checked
validate_image_shape_only(r) ==
  IF r.buf.chans # 3 THEN "ValueError" ELSE "ok"

\* validate_image, applied to the array decrypt_image returned: "ok" or the
\* exception raised (np.min of an empty array is a ValueError, of an array
\* holding None a TypeError)
validate_image(r) ==
  IF r.buf.chans # 3 THEN "ValueError"
  ELSE IF Size(r.buf) = 0 THEN "ValueError"
  ELSE IF r.nones # {} THEN "TypeError"
  ELSE IF \E p \in 1 .. Size(r.buf) : r.buf.data[p] < 0 \/ r.buf.data[p] > KeySize - 1
    THEN "ValueError"
  ELSE "ok"

(***************************************************************************)
(* Flattened pixel file: save_image_to_csv, load_image_from_csv            *)
(*                                                                         *)
(* A file is [exists, header, lines]: header the integers of its first     *)
(* line, lines the integers of each line after it.                         *)
(***************************************************************************)
NoFile == [exists |-> FALSE, header |-> <<>>, lines |-> <<>>]

\* img.shape[-1]
LastDim(b) == IF b.chans = 0 THEN b.cols ELSE b.chans

\* lines 104-107: img.reshape(-1, img.shape[-1]) written one row a line under the
\* header "rows,cols"
save_image_to_csv(b, rows, cols) ==
  LET w == LastDim(b)
      n == IF w = 0 THEN 0 ELSE Size(b) \div w
  IN [exists |-> TRUE, header |-> <<rows, cols>>,
      lines |-> [r \in 1 .. n |-> SubSeq(b.data, (r - 1) * w + 1, r * w)]]

RECURSIVE Flatten(_)
Flatten(ls) == IF ls = <<>> THEN <<>> ELSE Head(ls) \o Flatten(Tail(ls))

\* np.loadtxt raises on lines of different lengths
Ragged(ls) == \E x, y \in 1 .. Len(ls) : Len(ls[x]) # Len(ls[y])

\* img_flat.reshape((rows, cols, 3)): one dimension may be -1 and is then
\* inferred from the size; otherwise the sizes must agree
Reshape(flat, rows, cols) ==
  LET size == Len(flat)
      fail == [ok |-> FALSE, buf |-> NoBuf]
      mk(r, c) == [ok |-> TRUE,
                   buf |-> [rows |-> r, cols |-> c, chans |-> 3, data |-> flat]]
  IN IF rows < -1 \/ cols < -1 \/ (rows = -1 /\ cols = -1) THEN fail
     ELSE IF rows = -1
       THEN IF cols * 3 = 0 \/ size % (cols * 3) # 0 THEN fail
            ELSE mk(size \div (cols * 3), cols)
     ELSE IF cols = -1
       THEN IF rows * 3 = 0 \/ size % (rows * 3) # 0 THEN fail
            ELSE mk(rows, size \div (rows * 3))
     ELSE IF rows * cols * 3 # size THEN fail
     ELSE mk(rows, cols)

\* load_image_from_csv: the buffer, or None for a missing file and for any
\* exception while reading (lines 76-78, 97-99)
load_image_from_csv(f) ==
  LET none == [status |-> "None", nones |-> {}, done |-> {}, buf |-> NoBuf]
  IN IF ~f.exists THEN none
     ELSE IF Len(f.header) # 2 THEN none
     ELSE IF Ragged(f.lines) THEN none
     ELSE LET r == Reshape(Flatten(f.lines), f.header[1], f.header[2])
          IN IF r.ok THEN [status |-> "ok", nones |-> {}, done |-> {}, buf |-> r.buf]
             ELSE none

(***************************************************************************)
(* Key file                                                                *)
(***************************************************************************)
\* load_key_from_file: the integers of the file, or the exception re-raised when
\* the file cannot be read or a token is no integer.  A key file is
\* [readable, values].
load_key_from_file(f) ==
  IF f.readable THEN [status |-> "ok", key |-> f.values]
  ELSE [status |-> "Exception", key |-> <<>>]

\* every list random.shuffle can leave, from index i downwards
RECURSIVE ShuffleFrom(_, _)
ShuffleFrom(k, i) ==
  IF i < 1 THEN {k} ELSE UNION {ShuffleFrom(Swap(k, i, j), i - 1) : j \in 0 .. i}

\* the lists generate_key can return
generate_key == ShuffleFrom(expected_range, KeySize - 1)

(***************************************************************************)
(* Key file text: save_key_to_file, load_key_from_file                     *)
(*                                                                         *)
(* A text is a sequence of one-character strings.                          *)
(***************************************************************************)
\* number of byte values of the program, for the keys taken at full size
ByteRange == 256

DigitChars == <<"0", "1", "2", "3", "4", "5", "6", "7", "8", "9">>

Whitespace == {" ", "\n", "\t", "\r"}

\* str(n) for n >= 0
RECURSIVE StrNat(_)
StrNat(n) ==
  IF n < 10 THEN <<DigitChars[n + 1]>>
  ELSE StrNat(n \div 10) \o <<DigitChars[(n % 10) + 1]>>

\* str(n)
Str(n) == IF n < 0 THEN <<"-">> \o StrNat(-n) ELSE StrNat(n)

\* ', '.join(map(str, key[lo:hi])), for the entries lo .. hi (1-based, lo <= hi)
RECURSIVE JoinRange(_, _, _)
JoinRange(k, lo, hi) ==
  IF lo = hi THEN Str(k[lo])
  ELSE LET mid == (lo + hi) \div 2
       IN JoinRange(k, lo, mid) \o <<",", " ">> \o JoinRange(k, mid + 1, hi)

JoinStrs(k) == IF k = <<>> THEN <<>> ELSE JoinRange(k, 1, Len(k))

\* a mutation of key_string: the entries are written last to first
key_string_backwards(k) == JoinStrs([i \in 1 .. Len(k) |-> k[Len(k) + 1 - i]])

\* line 66: key_string = ', '.join(map(str, key)), the text save_key_to_file writes
key_string(k) == JoinStrs(k)

\* s.strip()
Strip(t) ==
  LET keep == {i \in 1 .. Len(t) : t[i] \notin Whitespace}
  IN IF keep = {} THEN <<>>
     ELSE LET lo == CHOOSE i \in keep : \A j \in keep : i <= j
              hi == CHOOSE i \in keep : \A j \in keep : j <= i
          IN SubSeq(t, lo, hi)

\* t.split(','): the tokens between the commas, one more than there are commas
Split(t) ==
  LET commas == {i \in 1 .. Len(t) : t[i] = ","}
      n      == Cardinality(commas)
      rank   == [c \in commas |-> Cardinality({j \in commas : j <= c})]
      at     == [m \in 1 .. n |-> CHOOSE c \in commas : rank[c] = m]
      lo(m)  == IF m = 1 THEN 1 ELSE at[m - 1] + 1
      hi(m)  == IF m = n + 1 THEN Len(t) ELSE at[m] - 1
  IN [m \in 1 .. (n + 1) |-> SubSeq(t, lo(m), hi(m))]

DigitValue(ch) == (CHOOSE d \in 1 .. 10 : DigitChars[d] = ch) - 1

IsDigit(ch) == \E d \in 1 .. 10 : DigitChars[d] = ch

RECURSIVE NatValue(_)
NatValue(ds) ==
  IF ds = <<>> THEN 0
  ELSE NatValue(SubSeq(ds, 1, Len(ds) - 1)) * 10 + DigitValue(ds[Len(ds)])

\* int(token) for a stripped token of digits, signs, commas and blanks: an
\* optional sign and at least one digit, or a ValueError
ParseInt(tok) ==
  LET signed == tok # <<>> /\ tok[1] \in {"-", "+"}
      ds     == IF signed THEN Tail(tok) ELSE tok
  IN IF ds = <<>> \/ \E i \in 1 .. Len(ds) : ~IsDigit(ds[i])
       THEN [ok |-> FALSE, val |-> 0]
       ELSE [ok |-> TRUE, val |-> IF signed /\ tok[1] = "-" THEN -NatValue(ds) ELSE NatValue(ds)]

\* lines 62-65: key_string = file.read().strip();
\* key = [int(s.strip()) for s in key_string.split(',')], or the ValueError re-raised
parse_key_text(text) ==
  LET toks   == Split(Strip(text))
      parsed == [i \in 1 .. Len(toks) |-> ParseInt(Strip(toks[i]))]
  IN IF \E i \in 1 .. Len(toks) : ~parsed[i].ok
       THEN [status |-> "ValueError", key |-> <<>>]
       ELSE [status |-> "ok", key |-> [i \in 1 .. Len(toks) |-> parsed[i].val]]

(***************************************************************************)
(* Input families                                                          *)
(***************************************************************************)
\* every valid key
Perms == {k \in [1 .. KeySize -> Bytes] : \A v \in Bytes : \E i \in 1 .. KeySize : k[i] = v}

Shapes == (0 .. MaxRows) \X (0 .. MaxCols)

\* a buffer of the given shape whose flat element i holds (start + i * step) mod KeySize
Pattern(rows, cols, chans, start, step) ==
  [rows |-> rows, cols |-> cols, chans |-> chans,
   data |-> [i \in 1 .. rows * cols * (IF chans = 0 THEN 1 ELSE chans) |->
               (start + (i - 1) * step) % KeySize]]

PatternBufs(chans) ==
  {Pattern(s[1], s[2], chans, start, step) : s \in Shapes, start \in Bytes, step \in Bytes}

\* the pattern buffers, and each with one element replaced by a value of vals
OneOff(bufs, vals) ==
  UNION {{[b EXCEPT !.data[p] = v] : p \in 1 .. Size(b), v \in vals} : b \in bufs}

\* buffers of shape (rows, cols, 3) with every element a byte value
InRangeBufs == PatternBufs(3) \cup OneOff(PatternBufs(3), Bytes)

\* values outside the byte range: just outside it, and beyond the reach of a
\* negative list index
OutVals == {-(KeySize + 1), -KeySize, -1, KeySize}

\* buffers of shape (rows, cols, 3) with exactly one element outside the byte range
FaultBufs == OneOff(PatternBufs(3), OutVals)

InRange(b) == \A p \in 1 .. Size(b) : b.data[p] \in Bytes

(***************************************************************************)
(* Key specification: key generation and key validation                    *)
(***************************************************************************)
\* candidate keys handed to validate_key: every sequence of length at most
\* KeySize + 1 over the byte values and one value on either side of them
CandidateValues == -1 .. KeySize
CandidateKeys == UNION {[1 .. n -> CandidateValues] : n \in 0 .. (KeySize + 1)}

Idle ==
  /\ img = NoBuf /\ img1 = NoOut /\ img3 = NoOut
  /\ work = <<>> /\ disk = NoFile /\ run = "none"

KeyInit ==
  /\ pc = "start" /\ origin = "none" /\ key = <<>> /\ shuf_i = 0
  /\ vres = NoResult
  /\ Idle

\* generate_key, line 54: key = list(range(256))
GenerateKeyBegin ==
  /\ pc = "start"
  /\ key' = expected_range
  /\ shuf_i' = KeySize - 1
  /\ origin' = "generate_key"
  /\ pc' = "shuffle"
  /\ UNCHANGED <<vres, img, img1, img3, work, disk, run>>

\* random.shuffle: for i in reversed(range(1, len(x))): j = randbelow(i + 1); swap
ShuffleStep ==
  /\ pc = "shuffle" /\ shuf_i >= 1
  /\ \E j \in 0 .. shuf_i : key' = Swap(key, shuf_i, j)
  /\ shuf_i' = shuf_i - 1
  /\ UNCHANGED <<pc, origin, vres, img, img1, img3, work, disk, run>>

\* generate_key returns the shuffled list
GenerateKeyReturn ==
  /\ pc = "shuffle" /\ shuf_i < 1
  /\ pc' = "have_key"
  /\ UNCHANGED <<origin, key, shuf_i, vres, img, img1, img3, work, disk, run>>

\* a candidate sequence from elsewhere (a key file, a caller)
TakeCandidate ==
  /\ pc = "start"
  /\ \E c \in CandidateKeys : key' = c
  /\ origin' = "candidate"
  /\ pc' = "have_key"
  /\ UNCHANGED <<shuf_i, vres, img, img1, img3, work, disk, run>>

ValidateKey ==
  /\ pc = "have_key"
  /\ vres' = validate_key(key)
  /\ pc' = "validated"
  /\ UNCHANGED <<origin, key, shuf_i, img, img1, img3, work, disk, run>>

KeyNext == GenerateKeyBegin \/ ShuffleStep \/ GenerateKeyReturn \/ TakeCandidate \/ ValidateKey

SpecKey == KeyInit /\ [][KeyNext]_vars

(***************************************************************************)
(* Substitution specification: encrypt_image, then decrypt_image of its    *)
(* result, for valid keys and buffers of byte values                       *)
(***************************************************************************)
KeyIdle == origin = "none" /\ shuf_i = 0 /\ vres = NoResult

SubstInit ==
  /\ pc = "start"
  /\ key \in Perms
  /\ img \in InRangeBufs
  /\ img1 = NoOut /\ img3 = NoOut
  /\ work = <<>> /\ disk = NoFile /\ run = "none"
  /\ KeyIdle

Encrypt ==
  /\ pc = "start"
  /\ img1' = encrypt_image(img, key)
  /\ pc' = "encrypted"
  /\ UNCHANGED <<origin, key, shuf_i, vres, img, img3, work, disk, run>>

\* decrypt_image applied to the buffer encrypt_image returned
Decrypt ==
  /\ pc = "encrypted" /\ img1.status = "ok"
  /\ img3' = decrypt_image(img1.buf, key)
  /\ pc' = "decrypted"
  /\ UNCHANGED <<origin, key, shuf_i, vres, img, img1, work, disk, run>>

SubstNext == Encrypt \/ Decrypt

SpecSubst == SubstInit /\ [][SubstNext]_vars

(***************************************************************************)
(* Domain specification: either direction applied to a buffer with one     *)
(* element outside the byte range                                          *)
(***************************************************************************)
DomainInit ==
  /\ pc = "start"
  /\ key \in Perms
  /\ img \in FaultBufs
  /\ img1 = NoOut /\ img3 = NoOut
  /\ work = <<>> /\ disk = NoFile /\ run = "none"
  /\ KeyIdle

EncryptOutOfDomain ==
  /\ pc = "start"
  /\ img1' = encrypt_image(img, key)
  /\ pc' = "encrypt_done"
  /\ UNCHANGED <<origin, key, shuf_i, vres, img, img3, work, disk, run>>

DecryptOutOfDomain ==
  /\ pc = "start"
  /\ img3' = decrypt_image(img, key)
  /\ pc' = "decrypt_done"
  /\ UNCHANGED <<origin, key, shuf_i, vres, img, img1, work, disk, run>>

DomainNext == EncryptOutOfDomain \/ DecryptOutOfDomain

SpecDomain == DomainInit /\ [][DomainNext]_vars

(***************************************************************************)
(* Order specification: the element steps of one substitution run by two   *)
(* workers, one taking the elements before a split point in ascending      *)
(* order, the other the rest in descending order, interleaved freely       *)
(***************************************************************************)
\* split points: pixel boundaries of the flat buffer
Splits(b) == {3 * n : n \in 0 .. (b.rows * b.cols)}

OrderInit ==
  /\ pc = "substituting"
  /\ key \in Perms
  /\ img \in PatternBufs(3)
  /\ run \in {"encrypt", "decrypt"}
  /\ \E sp \in Splits(img) :
       work = [status |-> IF run = "decrypt" THEN VectorizeEntry(img) ELSE "ok",
               data |-> Zeros(img).data, done |-> {},
               split |-> sp, a |-> 1, b |-> Size(img)]
  /\ img1 = NoOut /\ img3 = NoOut /\ disk = NoFile
  /\ KeyIdle

ElementStep(out, p) ==
  IF run = "encrypt" THEN encrypt_step(out, img, key, p) ELSE decrypt_step(out, img, key, p)

WorkerA ==
  /\ pc = "substituting" /\ work.a <= work.split
  /\ work' = [ElementStep(work, work.a) EXCEPT !.a = @ + 1]
  /\ UNCHANGED <<pc, origin, key, shuf_i, vres, img, img1, img3, disk, run>>

WorkerB ==
  /\ pc = "substituting" /\ work.b > work.split
  /\ work' = [ElementStep(work, work.b) EXCEPT !.b = @ - 1]
  /\ UNCHANGED <<pc, origin, key, shuf_i, vres, img, img1, img3, disk, run>>

\* the final join, and beside it the single linear pass of the code
Join ==
  /\ pc = "substituting" /\ work.a > work.split /\ work.b <= work.split
  /\ pc' = "joined"
  /\ img1' = IF run = "encrypt" THEN encrypt_image(img, key) ELSE img1
  /\ img3' = IF run = "decrypt" THEN decrypt_image(img, key) ELSE img3
  /\ UNCHANGED <<origin, key, shuf_i, vres, img, work, disk, run>>

OrderNext == WorkerA \/ WorkerB \/ Join

SpecOrder == OrderInit /\ [][OrderNext]_vars

(***************************************************************************)
(* File specification: a buffer saved with save_image_to_csv, the file     *)
(* possibly altered afterwards, and read back with load_image_from_csv     *)
(***************************************************************************)
\* integer buffers of shape (rows, cols, 3), values inside and outside the byte range
CsvBufs == PatternBufs(3) \cup FaultBufs

\* header values a damaged file may declare
HeaderRows == -1 .. (MaxRows + 1)
HeaderCols == -1 .. (MaxCols + 1)

CsvInit ==
  /\ pc = "start"
  /\ img \in CsvBufs
  /\ disk = NoFile
  /\ origin = "none"
  /\ key = <<>> /\ shuf_i = 0 /\ vres = NoResult
  /\ img1 = NoOut /\ img3 = NoOut /\ work = <<>> /\ run = "none"

SaveCsv ==
  /\ pc = "start"
  /\ disk' = save_image_to_csv(img, img.rows, img.cols)
  /\ origin' = "saved"
  /\ pc' = "on_disk"
  /\ UNCHANGED <<key, shuf_i, vres, img, img1, img3, work, run>>

\* the header of the file is overwritten
DamageHeader ==
  /\ pc = "on_disk" /\ origin = "saved"
  /\ \E r \in HeaderRows, c \in HeaderCols :
       /\ <<r, c>> # disk.header
       /\ disk' = [disk EXCEPT !.header = <<r, c>>]
  /\ origin' = "damaged"
  /\ UNCHANGED <<pc, key, shuf_i, vres, img, img1, img3, work, run>>

\* the file loses its last line
DropLine ==
  /\ pc = "on_disk" /\ origin = "saved" /\ Len(disk.lines) > 0
  /\ disk' = [disk EXCEPT !.lines = SubSeq(@, 1, Len(@) - 1)]
  /\ origin' = "damaged"
  /\ UNCHANGED <<pc, key, shuf_i, vres, img, img1, img3, work, run>>

\* the file's last line loses its last value
CutLine ==
  /\ pc = "on_disk" /\ origin = "saved" /\ Len(disk.lines) > 0
  /\ disk' = [disk EXCEPT !.lines[Len(disk.lines)] = SubSeq(@, 1, Len(@) - 1)]
  /\ origin' = "damaged"
  /\ UNCHANGED <<pc, key, shuf_i, vres, img, img1, img3, work, run>>

\* the file is removed
RemoveFile ==
  /\ pc = "on_disk" /\ origin = "saved"
  /\ disk' = NoFile
  /\ origin' = "damaged"
  /\ UNCHANGED <<pc, key, shuf_i, vres, img, img1, img3, work, run>>

LoadCsv ==
  /\ pc = "on_disk"
  /\ img3' = load_image_from_csv(disk)
  /\ pc' = "loaded"
  /\ UNCHANGED <<origin, key, shuf_i, vres, img, img1, work, disk, run>>

CsvNext == SaveCsv \/ DamageHeader \/ DropLine \/ CutLine \/ RemoveFile \/ LoadCsv

SpecCsv == CsvInit /\ [][CsvNext]_vars

(***************************************************************************)
(* Workflow specification: one run of main of img_encrypt.py or of         *)
(* img_decrypt.py.  work holds what the run has done: whether a step       *)
(* failed, the outcome of validate_image, and the image outputs made       *)
(* (written to the CSV file, written to a PNG file, displayed).            *)
(***************************************************************************)
\* what load_image can return: a non-empty uint8 array, 2-D (grey), RGB or RGBA
LoadedImages ==
  {b \in PatternBufs(0) \cup PatternBufs(3) \cup PatternBufs(4) : Size(b) > 0}

\* contents of encrypted_image.csv: a buffer of byte values, or one with an
\* element outside the byte range
MainBufs ==
  PatternBufs(3) \cup OneOff({Pattern(sh[1], sh[2], 3, 0, 1) : sh \in Shapes}, OutVals)

MainCsvFiles ==
  {save_image_to_csv(b, b.rows, b.cols) : b \in MainBufs}
    \cup {[save_image_to_csv(b, b.rows, b.cols) EXCEPT !.header = <<b.rows + 1, b.cols>>] :
             b \in {Pattern(sh[1], sh[2], 3, 0, 1) : sh \in Shapes}}
    \cup {NoFile}

\* contents of the key file: a valid key, the identity with one entry replaced,
\* a list one entry short or long, or a file that cannot be read or parsed
KeyFiles ==
  {[readable |-> TRUE, values |-> k] :
     k \in Perms
          \cup {[expected_range EXCEPT ![i] = v] : i \in 1 .. KeySize, v \in CandidateValues}
          \cup {SubSeq(expected_range, 1, KeySize - 1), expected_range \o <<0>>}}
    \cup {[readable |-> FALSE, values |-> <<>>]}

NoWork == [raised |-> FALSE, validated |-> "pending", outputs |-> {}]

Output(sink, r) == [sink |-> sink, buf |-> r.buf, nones |-> r.nones, done |-> r.done]

\* the except clauses around decrypt_image and validate_image (lines 267-270,
\* 292-295): which one takes the exception; both end the run with exit(1)
DecryptHandler(exc) ==
  IF exc \in {"ValueError", "KeyError"} THEN [by |-> "inner", pc |-> "exit_1"]
  ELSE [by |-> "outer", pc |-> "exit_1"]

MainInit ==
  /\ run \in {"encrypt", "decrypt"}
  /\ pc = "select"
  /\ key = <<>> /\ img = NoBuf /\ img1 = NoOut /\ img3 = NoOut
  /\ work = NoWork /\ disk = NoFile
  /\ KeyIdle

Fail == /\ pc' = "exit_1" /\ work' = [work EXCEPT !.raised = TRUE]

\* a file or directory dialog: a path, or nothing selected and exit(1)
Select(from, to) ==
  /\ pc = from
  /\ \E chosen \in BOOLEAN : IF chosen THEN pc' = to /\ work' = work ELSE Fail
  /\ UNCHANGED <<origin, key, shuf_i, vres, img, img1, img3, disk, run>>

\* img_encrypt.py main, lines 196-200
EncSelectImage == run = "encrypt" /\ Select("select", "select_dir")

\* lines 208-221, os.makedirs included
EncSelectDir == run = "encrypt" /\ Select("select_dir", "load_image")

\* lines 229-234
EncLoadImage ==
  /\ run = "encrypt" /\ pc = "load_image"
  /\ \/ \E b \in LoadedImages : img' = b /\ pc' = "generate_key" /\ work' = work
     \/ img' = img /\ Fail
  /\ UNCHANGED <<origin, key, shuf_i, vres, img1, img3, disk, run>>

\* lines 237-243: generate_key, save_key_to_file
EncGenerateKey ==
  /\ run = "encrypt" /\ pc = "generate_key"
  /\ \E k \in generate_key : key' = k
  /\ \E saved \in BOOLEAN : IF saved THEN pc' = "encrypt" /\ work' = work ELSE Fail
  /\ UNCHANGED <<origin, shuf_i, vres, img, img1, img3, disk, run>>

\* lines 248-253
EncEncrypt ==
  /\ run = "encrypt" /\ pc = "encrypt"
  /\ img1' = encrypt_image(img, key)
  /\ IF img1'.status = "ok" THEN pc' = "save_csv" /\ work' = work ELSE Fail
  /\ UNCHANGED <<origin, key, shuf_i, vres, img, img3, disk, run>>

\* lines 256-262: a failed write may leave a part of the file
EncSaveCsv ==
  /\ run = "encrypt" /\ pc = "save_csv"
  /\ \/ /\ disk' = save_image_to_csv(img1.buf, img.rows, img.cols)
        /\ work' = [work EXCEPT !.outputs = @ \cup {Output("csv", img1)}]
        /\ pc' = "save_png"
     \/ /\ disk' = disk
        /\ \E part \in BOOLEAN :
             work' = [work EXCEPT !.raised = TRUE,
                                  !.outputs = IF part THEN @ \cup {Output("csv", img1)} ELSE @]
        /\ pc' = "exit_1"
  /\ UNCHANGED <<origin, key, shuf_i, vres, img, img1, img3, run>>

\* lines 265-270
EncSavePng ==
  /\ run = "encrypt" /\ pc = "save_png"
  /\ \/ /\ work' = [work EXCEPT !.outputs = @ \cup {Output("png", img1)}]
        /\ pc' = "display"
     \/ Fail
  /\ UNCHANGED <<origin, key, shuf_i, vres, img, img1, img3, disk, run>>

\* lines 273-280
EncDisplay ==
  /\ run = "encrypt" /\ pc = "display"
  /\ \/ /\ work' = [work EXCEPT !.outputs = @ \cup {Output("display", img1)}]
        /\ pc' = "exit_0"
     \/ Fail
  /\ UNCHANGED <<origin, key, shuf_i, vres, img, img1, img3, disk, run>>

\* img_decrypt.py main, lines 226-231
DecSelectKey == run = "decrypt" /\ Select("select", "load_key")

\* lines 236-242: load_key_from_file, validate_key
DecLoadKey ==
  /\ run = "decrypt" /\ pc = "load_key"
  /\ \E f \in KeyFiles :
       LET r == load_key_from_file(f)
       IN IF r.status # "ok"
            THEN key' = key /\ vres' = vres /\ Fail
            ELSE /\ key' = r.key
                 /\ vres' = validate_key(r.key)
                 /\ IF vres'.error = "none" THEN pc' = "select_dir" /\ work' = work ELSE Fail
  /\ UNCHANGED <<origin, shuf_i, img, img1, img3, disk, run>>

\* lines 247-252
DecSelectDir == run = "decrypt" /\ Select("select_dir", "load_csv")

\* lines 255-260
DecLoadCsv ==
  /\ run = "decrypt" /\ pc = "load_csv"
  /\ \E f \in MainCsvFiles :
       LET r == load_image_from_csv(f)
       IN /\ disk' = f
          /\ IF r.status = "ok" THEN img' = r.buf /\ pc' = "decrypt" /\ work' = work
             ELSE img' = img /\ Fail
  /\ UNCHANGED <<origin, key, shuf_i, vres, img1, img3, run>>

\* line 265
DecDecrypt ==
  /\ run = "decrypt" /\ pc = "decrypt"
  /\ img3' = decrypt_image(img, key)
  /\ IF img3'.status = "ok" THEN pc' = "validate_image" /\ work' = work
     ELSE pc' = DecryptHandler(img3'.status).pc /\ work' = [work EXCEPT !.raised = TRUE]
  /\ UNCHANGED <<origin, key, shuf_i, vres, img, img1, disk, run>>

\* line 266
DecValidate ==
  /\ run = "decrypt" /\ pc = "validate_image"
  /\ LET v == validate_image(img3)
     IN IF v = "ok" THEN pc' = "display" /\ work' = [work EXCEPT !.validated = "ok"]
        ELSE /\ pc' = DecryptHandler(v).pc
             /\ work' = [work EXCEPT !.raised = TRUE, !.validated = v]
  /\ UNCHANGED <<origin, key, shuf_i, vres, img, img1, img3, disk, run>>

\* lines 273-275
DecDisplay ==
  /\ run = "decrypt" /\ pc = "display"
  /\ \/ /\ work' = [work EXCEPT !.outputs = @ \cup {Output("display", img3)}]
        /\ pc' = "select_out"
     \/ Fail
  /\ UNCHANGED <<origin, key, shuf_i, vres, img, img1, img3, disk, run>>

\* lines 280-285
DecSelectOut == run = "decrypt" /\ Select("select_out", "save_png")

\* lines 288-290
DecSavePng ==
  /\ run = "decrypt" /\ pc = "save_png"
  /\ \/ /\ work' = [work EXCEPT !.outputs = @ \cup {Output("png", img3)}]
        /\ pc' = "exit_0"
     \/ Fail
  /\ UNCHANGED <<origin, key, shuf_i, vres, img, img1, img3, disk, run>>

MainNext ==
  \/ EncSelectImage \/ EncSelectDir \/ EncLoadImage \/ EncGenerateKey \/ EncEncrypt
  \/ EncSaveCsv \/ EncSavePng \/ EncDisplay
  \/ DecSelectKey \/ DecLoadKey \/ DecSelectDir \/ DecLoadCsv \/ DecDecrypt
  \/ DecValidate \/ DecDisplay \/ DecSelectOut \/ DecSavePng

SpecMain == MainInit /\ [][MainNext]_vars

(***************************************************************************)
(* Key file specification: a key written by save_key_to_file and read back *)
(* by load_key_from_file                                                   *)
(***************************************************************************)
\* keys at full size: i |-> (start + mult * i) mod 256, mult odd
FullKeys ==
  {[i \in 1 .. ByteRange |-> (start + mult * (i - 1)) % ByteRange] :
     start \in {0, 7, 200}, mult \in {1, 3, ByteRange - 1}}

NoKey == [status |-> "pending", key |-> <<>>]

KeyFileInit ==
  /\ pc = "start"
  /\ key \in CandidateKeys \cup FullKeys
  /\ disk = <<>>
  /\ work = NoKey
  /\ origin = "none" /\ shuf_i = 0 /\ vres = NoResult
  /\ img = NoBuf /\ img1 = NoOut /\ img3 = NoOut /\ run = "none"

\* save_key_to_file: the text is written, or open/write raises and nothing is kept
SaveKey ==
  /\ pc = "start"
  /\ \/ disk' = key_string(key) /\ pc' = "key_on_disk"
     \/ disk' = disk /\ pc' = "save_failed"
  /\ UNCHANGED <<origin, key, shuf_i, vres, img, img1, img3, work, run>>

\* load_key_from_file on the file written
LoadKey ==
  /\ pc = "key_on_disk"
  /\ work' = parse_key_text(disk)
  /\ pc' = "key_loaded"
  /\ UNCHANGED <<origin, key, shuf_i, vres, img, img1, img3, disk, run>>

KeyFileNext == SaveKey \/ LoadKey

SpecKeyFile == KeyFileInit /\ [][KeyFileNext]_vars

\* a bijection on the byte values: the right length, every byte value at exactly one index
IsPermutation(k) ==
  /\ Len(k) = KeySize
  /\ \A v \in Bytes : Cardinality({i \in 1 .. Len(k) : k[i] = v}) = 1

\* C3: every key generate_key returns has KeySize entries, holds every byte value
\* exactly once, and passes validate_key
C3_GeneratedKeyValid ==
  (origin = "generate_key" /\ pc \in {"have_key", "validated"}) =>
     /\ Len(key) = KeySize
     /\ \A v \in Bytes : Count(key, v) = 1
     /\ validate_key(key).error = "none"
     /\ (pc = "validated" => vres.error = "none")

C3_Witness ==
  /\ origin = "generate_key" /\ pc = "validated"
  /\ key # expected_range /\ vres.error = "none"

\* C4: validate_key accepts exactly the bijections on the byte values: a length
\* error for any other length, a content error for a sequence of the right length
\* that is no permutation, and no error for a permutation
C4_ValidateIffBijection ==
  pc = "validated" =>
     /\ (vres.error = "none") <=> IsPermutation(key)
     /\ (Len(key) # KeySize) <=> (vres.error = "length")
     /\ (Len(key) = KeySize /\ ~IsPermutation(key)) <=> (vres.error \in ContentErrors)

C4_Witness ==
  /\ pc = "validated" /\ origin = "candidate"
  /\ Len(key) = KeySize /\ vres.error \in ContentErrors

\* C5: a content error names both the missing values and the duplicated values
C5_ReportsMissingAndDuplicates ==
  (pc = "validated" /\ vres.error \in ContentErrors) =>
     /\ vres.missing = Bytes \ SeqSet(key)
     /\ vres.duplicates = {v \in SeqSet(key) : Count(key, v) > 1}

\* C1 as stated, for every buffer of shape (rows, cols, 3): decrypt_image of
\* encrypt_image's result returns the buffer, element for element and in shape
C1_RoundTripEveryBuffer ==
  pc = "encrypted" => /\ img1.status = "ok"
                      /\ decrypt_image(img1.buf, key).status = "ok"
                      /\ decrypt_image(img1.buf, key).buf = img

\* C1, amended: for a buffer with at least one element, decrypt_image of
\* encrypt_image's result returns the buffer, element for element and in shape
C1_RoundTripNonEmpty ==
  /\ (pc = "encrypted" /\ Size(img) > 0) => img1.status = "ok"
  /\ (pc = "decrypted" /\ Size(img) > 0) =>
        /\ img3.status = "ok" /\ img3.nones = {}
        /\ img3.buf.rows = img.rows /\ img3.buf.cols = img.cols /\ img3.buf.chans = 3
        /\ Len(img3.buf.data) = Len(img.data)
        /\ \A p \in 1 .. Size(img) : img3.buf.data[p] = img.data[p]

C1_Witness ==
  /\ pc = "decrypted" /\ img.rows = MaxRows /\ img.cols = MaxCols
  /\ key # expected_range /\ img1.buf.data # img.data
  /\ \E p, q \in 1 .. Size(img) : img.data[p] # img.data[q]
  /\ img3.status = "ok" /\ img3.buf = img

\* the scenario at full size: under the reverse key [255, 254, ..., 0] the single
\* pixel [10, 20, 30] becomes [245, 235, 225]
ReverseKeyScenario ==
  encrypt_image([rows |-> 1, cols |-> 1, chans |-> 3, data |-> <<10, 20, 30>>],
                [i \in 1 .. 256 |-> 256 - i]).buf.data = <<245, 235, 225>>

\* C2: encrypt_image returns a buffer of its input's shape whose element at every
\* position is key[v], v the input element there
C2_ForwardSubstitution ==
  pc \in {"encrypted", "decrypted"} =>
     /\ ReverseKeyScenario
     /\ img1.status = "ok"
     /\ img1.buf.rows = img.rows /\ img1.buf.cols = img.cols /\ img1.buf.chans = img.chans
     /\ Len(img1.buf.data) = Len(img.data)
     /\ \A p \in 1 .. Size(img) : img1.buf.data[p] = key[img.data[p] + 1]

\* the reverse key, v |-> KeySize - 1 - v, sends a pixel <<0, 1, 2>> to its mirror
C2_Witness ==
  /\ pc = "encrypted" /\ img.rows = 1 /\ img.cols = 1
  /\ key = [i \in 1 .. KeySize |-> KeySize - i]
  /\ img.data = <<0, 1, 2>>
  /\ img1.buf.data = <<KeySize - 1, KeySize - 2, KeySize - 3>>

\* C6: a buffer with an element outside the byte range makes either direction
\* fail and return no buffer
C6_OutOfDomainFails ==
  /\ pc = "encrypt_done" => img1.status # "ok"
  /\ pc = "decrypt_done" => img3.status # "ok"

\* C6, forward direction alone
C6_ForwardFails == pc = "encrypt_done" => img1.status # "ok"

\* C6, inverse direction alone
C6_InverseFails == pc = "decrypt_done" => img3.status # "ok"

\* C8: whatever the split between the workers and however their steps interleave,
\* the joined buffer is the buffer of the single linear pass
C8_OrderIndependent ==
  pc = "joined" =>
     /\ work.done = 1 .. Size(img)
     /\ run = "encrypt" =>
          /\ work.status = "ok" /\ img1.status = "ok"
          /\ work.data = img1.buf.data
     /\ run = "decrypt" =>
          /\ work.status = img3.status
          /\ img3.status = "ok" => (img3.nones = {} /\ work.data = img3.buf.data)
          /\ Size(img) > 0 => img3.status = "ok"

C8_Witness ==
  /\ pc = "joined" /\ run = "encrypt"
  /\ img.rows = MaxRows /\ img.cols = MaxCols
  /\ work.split > 0 /\ work.split < Size(img)
  /\ work.done = 1 .. Size(img)
  /\ key # expected_range
  /\ \E p, q \in 1 .. Size(img) : img.data[p] # img.data[q]
  /\ work.data = img1.buf.data /\ work.data # img.data

\* the element count a file declares, and the count of elements it holds
Declared(f) == f.header[1] * f.header[2] * 3
Actual(f) == Len(Flatten(f.lines))

\* C10, first half: the file save_image_to_csv wrote loads to the buffer saved
C10_SavedFileReloads ==
  (pc = "loaded" /\ origin = "saved") => (img3.status = "ok" /\ img3.buf = img)

\* C10, second half: a file whose declared element count differs from the count
\* of elements present yields no buffer
C10_MismatchYieldsNoBuffer ==
  (pc = "loaded" /\ disk.exists /\ Len(disk.header) = 2 /\ Declared(disk) # Actual(disk))
     => img3.status = "None"

\* C10: the saved file reloads to the buffer saved, and a file whose declared
\* element count differs from the count present yields no buffer
C10_FileRoundTripAndMismatch == C10_SavedFileReloads /\ C10_MismatchYieldsNoBuffer

\* the buffer validation of the claim: three channels, every element a byte value
BufferValid(b) == b.chans = 3 /\ InRange(b)

\* C7: no element is substituted in a run whose key or input buffer fails
\* validation, and such a run does not end normally
C7_ValidationBeforeSubstitution ==
  /\ (img1.done # {} \/ img3.done # {}) =>
        /\ run = "decrypt" => vres.error = "none"
        /\ BufferValid(img)
  /\ (pc = "exit_0" /\ run = "decrypt") => vres.error = "none"
  /\ pc = "exit_0" => BufferValid(img)

\* C7, the key alone: in a decrypt run nothing is substituted before the key
\* loaded from the key file has passed validate_key
C7_KeyValidatedFirst ==
  (run = "decrypt" /\ (img3.done # {} \/ pc \in {"decrypt", "validate_image", "display"}))
     => (vres.error = "none" /\ IsPermutation(key))

\* C9: a run in which a step failed ends with exit(1), and every image output
\* was made from a buffer substituted over every element and, in a decrypt run,
\* passed by validate_image
C9_NoPartialOutput ==
  /\ work.raised => pc = "exit_1"
  /\ pc = "exit_0" => ~work.raised
  /\ \A o \in work.outputs :
        /\ o.nones = {}
        /\ o.done = 1 .. Size(o.buf)
        /\ Size(o.buf) = Size3(img)
        /\ run = "encrypt" =>
              /\ img1.status = "ok"
              /\ \A p \in 1 .. Size(o.buf) : o.buf.data[p] = key[img.data[InIdx(img, p)] + 1]
        /\ run = "decrypt" =>
              /\ img3.status = "ok" /\ work.validated = "ok"
              /\ \A p \in 1 .. Size(o.buf) : key[o.buf.data[p] + 1] = img.data[p]

\* a decrypt run stopped after decrypt_image returned a buffer that still holds
\* None: nothing was displayed or written
C9_Witness ==
  /\ run = "decrypt" /\ pc = "exit_1"
  /\ img3.status = "ok" /\ img3.nones # {} /\ img3.done # {}
  /\ work.raised /\ work.outputs = {}

\* a valid key: a permutation of the scaled byte values, or one of the full-size keys
ValidKey(k) ==
    \/ IsPermutation(k)
    \/ /\ Len(k) = ByteRange
       /\ {k[i] : i \in 1 .. Len(k)} = 0 .. (ByteRange - 1)

\* C11: load_key_from_file applied to the text save_key_to_file wrote for a valid
\* key returns the key: the same values in the same index order
C11_KeyFileRoundTrip ==
  (pc = "key_loaded" /\ ValidKey(key)) =>
     /\ work.status = "ok"
     /\ Len(work.key) = Len(key)
     /\ \A i \in 1 .. Len(key) : work.key[i] = key[i]

C11_Witness ==
  /\ pc = "key_loaded" /\ Len(key) = ByteRange
  /\ key[1] = 200 /\ key[2] = 199
  /\ work.status = "ok" /\ work.key = key

\* a key of the scaled size read back, not the identity
C11_WitnessScaled ==
  /\ pc = "key_loaded" /\ IsPermutation(key) /\ key # expected_range
  /\ work.status = "ok" /\ work.key = key

====
